---------------------------- MODULE Spec2Model ----------------------------
(***************************************************************************)
(* A model of the Tvog AI chat application: the server-sent-events stream  *)
(* loop and the markdown segment splitter of the Chat page, the row-level  *)
(* security policies of the migrations, the account-deletion grace period, *)
(* the asynchronous handlers of the Chat page, and the generate-video and  *)
(* analyze-file edge functions.                                            *)
(*                                                                         *)
(* Each part has its own specification over its own variables; the other   *)
(* variables keep their initial values.                                    *)
(*                                                                         *)
(* Text is a sequence of one-character strings.  JSON payloads of the      *)
(* stream are abbreviated: the text {x} stands for the chunk object        *)
(* {"choices":[{"delta":{"content":"x"}}]}, {} for a chunk object without  *)
(* content, and any other text is not JSON (JSON.parse throws).            *)
(***************************************************************************)
EXTENDS Integers, Sequences, FiniteSets, TLC

VARIABLES
    \* the stream loop of sendMessage / regenerateResponse / saveEditedMessage
    sStream,      \* the bytes the chat function sends
    sPos,         \* how many of them reader.read() has delivered
    sPending,     \* bytes the TextDecoder holds back (stream: true)
    sBuffer,      \* buffer
    sMsg,         \* assistantMessage
    sPc           \* "reading" | "done"

streamVars == <<sStream, sPos, sPending, sBuffer, sMsg, sPc>>

VARIABLES
    \* renderMessageContent
    rContent,     \* content
    rLastIndex,   \* lastIndex
    rParts,       \* parts
    rPc           \* "loop" | "done"

renderVars == <<rContent, rLastIndex, rParts, rPc>>

VARIABLES
    \* the database behind the row-level security policies
    conversations,  \* public.conversations: id -> user_id (NULL: no such row)
    dbMessages,     \* public.messages: id -> row (NoRow: no such row)
    objects,        \* storage.objects: the (bucket_id, name) pairs stored
    lastOp          \* the last request the database carried out

dbVars == <<conversations, dbMessages, objects, lastOp>>

VARIABLES
    \* the migrations of public.profiles
    applied,        \* how many of the profile migrations have been applied
    policies,       \* the policies on public.profiles
    profiles,       \* public.profiles: id -> display_name (NULL: no such row)
    migOp           \* the last request on public.profiles

migVars == <<applied, policies, profiles, migOp>>

VARIABLES
    \* accounts and the deletion grace period
    now,            \* NOW(), in days
    authUsers,      \* the ids of the rows of auth.users
    scheduledAt,    \* profiles.deletion_scheduled_at of each user, in days
    page            \* the page the browser of each user shows

acctVars == <<now, authUsers, scheduledAt, page>>

VARIABLES
    \* the Chat page: React state, the rows behind it, the running handlers
    isLoading,
    isUploading,
    input,
    selectedFile,
    currentConversation,
    messages,
    editingMessageId,
    editingContent,
    chatRows,       \* the rows of public.messages written by this page
    rowCount,       \* the number of message rows ever inserted
    convCount,      \* the number of conversation rows ever inserted
    inv,            \* the invocations of the async handlers that have not returned
    toast           \* the toast the last step showed

chatVars == <<isLoading, isUploading, input, selectedFile, currentConversation,
              messages, editingMessageId, editingContent, chatRows, rowCount,
              convCount, inv, toast>>

VARIABLES
    \* the generate-video edge function
    REPLICATE_API_KEY,  \* whether Deno.env.get finds the key
    predictions,        \* the predictions Replicate holds
    gvPc,
    gvMethod,           \* the request being served: its method,
    gvBody,             \* its body,
    gvBefore,           \* and the number of predictions when it arrived
    gvResponse          \* the response to it

videoVars == <<REPLICATE_API_KEY, predictions, gvPc, gvMethod, gvBody, gvBefore,
               gvResponse>>

VARIABLES
    \* the analyze-file edge function
    LOVABLE_API_KEY,    \* whether Deno.env.get finds the key
    afPc,
    afMethod,           \* the request being served: its method,
    afBody,             \* and its body
    afText,             \* the text part of the user message sent to the gateway
    afFile,             \* what fetch(fileUrl) came to
    afGateway,          \* what the fetch of the gateway came to
    afResponse          \* the response to the request

analyzeVars == <<LOVABLE_API_KEY, afPc, afMethod, afBody, afText, afFile, afGateway,
                 afResponse>>

vars == <<streamVars, renderVars, dbVars, migVars, acctVars, chatVars, videoVars,
          analyzeVars>>

nonStreamVars == <<renderVars, dbVars, migVars, acctVars, chatVars,
                  videoVars, analyzeVars>>
nonRenderVars == <<streamVars, dbVars, migVars, acctVars, chatVars,
                  videoVars, analyzeVars>>
nonDbVars == <<streamVars, renderVars, migVars, acctVars, chatVars,
                  videoVars, analyzeVars>>
nonMigVars == <<streamVars, renderVars, dbVars, acctVars, chatVars,
                  videoVars, analyzeVars>>
nonAcctVars == <<streamVars, renderVars, dbVars, migVars, chatVars,
                  videoVars, analyzeVars>>
nonChatVars == <<streamVars, renderVars, dbVars, migVars, acctVars,
                  videoVars, analyzeVars>>
nonVideoVars == <<streamVars, renderVars, dbVars, migVars, acctVars, chatVars,
                  analyzeVars>>
nonAnalyzeVars == <<streamVars, renderVars, dbVars, migVars, acctVars, chatVars,
                    videoVars>>

NULL == "NULL"

(***************************************************************************)
(* The values the variables of a part keep in the specifications of the    *)
(* other parts.                                                            *)
(***************************************************************************)
StreamIdle ==
    /\ sStream = <<>>
    /\ sPos = 0
    /\ sPending = <<>>
    /\ sBuffer = <<>>
    /\ sMsg = <<>>
    /\ sPc = "idle"

RenderIdle ==
    /\ rContent = <<>>
    /\ rLastIndex = 0
    /\ rParts = <<>>
    /\ rPc = "idle"

NoOp == [op |-> "none", uid |-> NULL, conv |-> NULL, conv2 |-> NULL, name |-> NULL]

DbIdle ==
    /\ conversations = <<>>
    /\ dbMessages = <<>>
    /\ objects = {}
    /\ lastOp = NoOp

NoMigOp == [op |-> "none", uid |-> NULL, id |-> NULL]

MigIdle ==
    /\ applied = 0
    /\ policies = {}
    /\ profiles = <<>>
    /\ migOp = NoMigOp

AcctIdle ==
    /\ now = 0
    /\ authUsers = {}
    /\ scheduledAt = <<>>
    /\ page = <<>>

ChatIdle ==
    /\ isLoading = FALSE
    /\ isUploading = FALSE
    /\ input = <<>>
    /\ selectedFile = -1
    /\ currentConversation = 0
    /\ messages = <<>>
    /\ editingMessageId = 0
    /\ editingContent = <<>>
    /\ chatRows = <<>>
    /\ rowCount = 0
    /\ convCount = 0
    /\ inv = <<>>
    /\ toast = "none"

NoResponse == [status |-> 0, error |-> NULL, analysis |-> NULL, predictionId |-> 0,
               predictionStatus |-> NULL]

NoPrompt == [kind |-> "absent", text |-> <<>>, number |-> 0]

NoVideoBody == [json |-> FALSE, predictionId |-> 0, prompt |-> NoPrompt]

VideoIdle ==
    /\ REPLICATE_API_KEY = TRUE
    /\ predictions = <<>>
    /\ gvPc = "idle"
    /\ gvMethod = "none"
    /\ gvBody = NoVideoBody
    /\ gvBefore = 0
    /\ gvResponse = NoResponse

NoAnalyzeBody == [json |-> FALSE, fileType |-> <<>>, prompt |-> FALSE]

NoReply == [status |-> 0, data |-> "none"]

AnalyzeIdle ==
    /\ LOVABLE_API_KEY = TRUE
    /\ afPc = "idle"
    /\ afMethod = "none"
    /\ afBody = NoAnalyzeBody
    /\ afText = "none"
    /\ afFile = "none"
    /\ afGateway = NoReply
    /\ afResponse = NoResponse

(***************************************************************************)
(* String helpers (JavaScript's String methods on sequences).              *)
(***************************************************************************)
Min(a, b) == IF a < b THEN a ELSE b
Max(a, b) == IF a > b THEN a ELSE b

\* s.slice(from, to) with 0-based non-negative indexes, to exclusive; indexes
\* past the end are clamped to the length
Slice(s, from, to) ==
    LET f == Min(from, Len(s))
        t == Min(to, Len(s))
    IN  IF t <= f THEN <<>> ELSE SubSeq(s, f + 1, t)

\* s.slice(from) with a 0-based non-negative index
SliceFrom(s, from) == Slice(s, from, Len(s))

\* s.startsWith(p)
StartsWith(s, p) == Len(s) >= Len(p) /\ Slice(s, 0, Len(p)) = p

\* s.endsWith(p)
EndsWith(s, p) == Len(s) >= Len(p) /\ Slice(s, Len(s) - Len(p), Len(s)) = p

\* s.indexOf(c) for a one-character c: 0-based, -1 when absent
IndexOf(s, c) ==
    IF \E i \in 1..Len(s) : s[i] = c
    THEN (CHOOSE i \in 1..Len(s) : s[i] = c /\ \A j \in 1..(i - 1) : s[j] # c) - 1
    ELSE -1

WhiteSpace == {" ", "\n", "\r", "\t"}

\* the first index from i on that holds no white space
RECURSIVE TrimStartIndex(_, _)
TrimStartIndex(s, i) ==
    IF i <= Len(s) /\ s[i] \in WhiteSpace THEN TrimStartIndex(s, i + 1) ELSE i

\* the last index up to i that holds no white space
RECURSIVE TrimEndIndex(_, _)
TrimEndIndex(s, i) ==
    IF i >= 1 /\ s[i] \in WhiteSpace THEN TrimEndIndex(s, i - 1) ELSE i

\* s.trim()
Trim(s) ==
    LET first == TrimStartIndex(s, 1)
        last  == TrimEndIndex(s, Len(s))
    IN  IF first > last THEN <<>> ELSE SubSeq(s, first, last)

RECURSIVE Flatten(_)
Flatten(ss) == IF ss = <<>> THEN <<>> ELSE Head(ss) \o Flatten(Tail(ss))

(***************************************************************************)
(* The stream loop.                                                        *)
(***************************************************************************)
DataPrefix == <<"d", "a", "t", "a", ":", " ">>
DoneMarker == <<"[", "D", "O", "N", "E", "]">>

\* The bytes of the two-byte character "e'" (U+00E9) and the character itself.
LeadByte == "C3"
ContByte == "A9"
EAcute   == "E9"

\* decoder.decode(value, { stream: true }): the text of the bytes held back
\* followed by the chunk; a lead byte at the end is held back for the next call.
RECURSIVE DecodeBytes(_)
DecodeBytes(bs) ==
    IF bs = <<>> THEN <<>>
    ELSE IF Head(bs) = LeadByte /\ Len(bs) >= 2 /\ bs[2] = ContByte
         THEN <<EAcute>> \o DecodeBytes(SliceFrom(bs, 2))
         ELSE <<Head(bs)>> \o DecodeBytes(Tail(bs))

DecodeHeld(bs) == IF bs # <<>> /\ bs[Len(bs)] = LeadByte THEN <<LeadByte>> ELSE <<>>

DecodeText(bs) == DecodeBytes(Slice(bs, 0, Len(bs) - Len(DecodeHeld(bs))))

\* JSON.parse(jsonStr) does not throw
JsonParses(jsonStr) ==
    /\ Len(jsonStr) >= 2
    /\ jsonStr[1] = "{"
    /\ jsonStr[Len(jsonStr)] = "}"
    /\ \A i \in 2..(Len(jsonStr) - 1) : jsonStr[i] \notin {"{", "}"}

\* parsed.choices?.[0]?.delta?.content (the empty text when undefined)
DeltaContent(jsonStr) == Slice(jsonStr, 1, Len(jsonStr) - 1)

\* if (line.endsWith("\r")) line = line.slice(0, -1)
StripCR(line) == IF EndsWith(line, <<"\r">>) THEN Slice(line, 0, Len(line) - 1) ELSE line

\* The inner while loop over the complete lines of the buffer: the buffer and
\* the assistant message it leaves.
RECURSIVE ProcessBuffer(_, _)
ProcessBuffer(buffer, msg) ==
    LET newlineIndex == IndexOf(buffer, "\n") IN
    IF newlineIndex = -1 THEN [buffer |-> buffer, msg |-> msg]
    ELSE
      LET line    == StripCR(Slice(buffer, 0, newlineIndex))
          rest    == SliceFrom(buffer, newlineIndex + 1)
          jsonStr == Trim(SliceFrom(line, 6))
      IN  IF StartsWith(line, <<":">>) \/ Trim(line) = <<>> THEN ProcessBuffer(rest, msg)
          ELSE IF ~StartsWith(line, DataPrefix) THEN ProcessBuffer(rest, msg)
          ELSE IF jsonStr = DoneMarker THEN [buffer |-> rest, msg |-> msg]
          ELSE IF ~JsonParses(jsonStr)
               THEN [buffer |-> line \o <<"\n">> \o rest, msg |-> msg]
          ELSE ProcessBuffer(rest, msg \o DeltaContent(jsonStr))

\* The lines a test stream is made of.
StreamLines ==
    { DataPrefix \o <<"{", "a", "}">>,
      DataPrefix \o <<"{", LeadByte, ContByte, "}">>,
      DataPrefix \o <<"{", "b", "}", "\r">>,
      DataPrefix \o <<"{", "}">>,
      DataPrefix \o DoneMarker,
      DataPrefix \o <<"{", "a">>,
      <<":", "k">>,
      <<"e", ":", "x">>,
      <<>> }

MaxLines == 3

RECURSIVE JoinLines(_)
JoinLines(ls) == IF ls = <<>> THEN <<>> ELSE Head(ls) \o <<"\n">> \o JoinLines(Tail(ls))

StreamInit ==
    /\ \E n \in 1..MaxLines : \E ls \in [1..n -> StreamLines] : \E terminated \in BOOLEAN :
          sStream = IF terminated THEN JoinLines(ls)
                    ELSE Slice(JoinLines(ls), 0, Len(JoinLines(ls)) - 1)
    /\ sPos = 0
    /\ sPending = <<>>
    /\ sBuffer = <<>>
    /\ sMsg = <<>>
    /\ sPc = "reading"

\* One turn of the outer loop: reader.read() delivers the next n bytes.
ReadChunk ==
    /\ sPc = "reading"
    /\ \E n \in 1..(Len(sStream) - sPos) :
         LET value == sPending \o Slice(sStream, sPos, sPos + n)
             r     == ProcessBuffer(sBuffer \o DecodeText(value), sMsg)
         IN  /\ sPos' = sPos + n
             /\ sPending' = DecodeHeld(value)
             /\ sBuffer' = r.buffer
             /\ sMsg' = r.msg
    /\ UNCHANGED <<sStream, sPc>>
    /\ UNCHANGED nonStreamVars

\* reader.read() answers done: the loop is left and assistantMessage is final.
ReadDone ==
    /\ sPc = "reading"
    /\ sPos = Len(sStream)
    /\ sPc' = "done"
    /\ UNCHANGED <<sStream, sPos, sPending, sBuffer, sMsg>>
    /\ UNCHANGED nonStreamVars

StreamNext == ReadChunk \/ ReadDone

StreamSpecInit == StreamInit /\ RenderIdle /\ DbIdle /\ MigIdle /\ AcctIdle /\ ChatIdle
        /\ VideoIdle /\ AnalyzeIdle

StreamSpec == StreamSpecInit /\ [][StreamNext]_vars

\* The in-order concatenation of the contents of the 'data: ' lines of a text.
RECURSIVE DataContents(_)
DataContents(text) ==
    LET newlineIndex == IndexOf(text, "\n") IN
    IF newlineIndex = -1 THEN <<>>
    ELSE
      LET line    == StripCR(Slice(text, 0, newlineIndex))
          rest    == SliceFrom(text, newlineIndex + 1)
          jsonStr == Trim(SliceFrom(line, 6))
      IN  (IF StartsWith(line, DataPrefix) /\ JsonParses(jsonStr)
           THEN DeltaContent(jsonStr) ELSE <<>>) \o DataContents(rest)

\* C2: whatever the chunking, the final assistantMessage is the concatenation
\* of the contents of the 'data: ' lines of the stream.
C2_ChunkingIndependent ==
    sPc = "done" => sMsg = DataContents(DecodeBytes(sStream))

(***************************************************************************)
(* renderMessageContent: the split of a message into text, code block and  *)
(* image segments by combinedRegex, whose first alternative is a fenced     *)
(* code block and whose second is a markdown image.                        *)
(***************************************************************************)
\* The backquote character.
Backquote == "BQ"
Fence == <<Backquote, Backquote, Backquote>>
WordChars == {"j", "s"}

\* The 0-based index of the first occurrence of the text p in s at or after
\* index from; -1 when there is none.
FindFrom(s, p, from) ==
    LET hits == { i \in from..(Len(s) - Len(p)) : Slice(s, i, i + Len(p)) = p }
    IN  IF hits = {} THEN -1 ELSE CHOOSE i \in hits : \A j \in hits : i <= j

\* The length of the run of word characters of s that starts at index i.
WordRun(s, i) ==
    LET ends == { k \in 0..(Len(s) - i) : \A j \in 1..k : s[i + j] \in WordChars }
    IN  CHOOSE k \in ends : \A m \in ends : m <= k

\* The code block alternative matched at index i (a fence, an optional greedy
\* run of word characters, a newline, a lazy body, a fence): the index after
\* the match, or -1 when it does not match there.
CodeMatchEnd(s, i) ==
    IF Slice(s, i, i + 3) # Fence THEN -1
    ELSE LET k == WordRun(s, i + 3) IN
         IF i + 3 + k + 1 > Len(s) \/ s[i + 3 + k + 1] # "\n" THEN -1
         ELSE LET close == FindFrom(s, Fence, i + 3 + k + 1) IN
              IF close = -1 THEN -1 ELSE close + 3

\* The image alternative matched at index i (an exclamation mark, an alt text
\* in brackets without a closing bracket in it, a non-empty source in
\* parentheses without a closing parenthesis in it): the index after the
\* match, or -1 when it does not match there.
ImageMatchEnd(s, i) ==
    IF Slice(s, i, i + 2) # <<"!", "[">> THEN -1
    ELSE LET rb == FindFrom(s, <<"]">>, i + 2) IN
         IF rb = -1 \/ rb + 2 > Len(s) \/ s[rb + 2] # "(" THEN -1
         ELSE LET rp == FindFrom(s, <<")">>, rb + 2) IN
              IF rp = -1 \/ rp = rb + 2 THEN -1 ELSE rp + 1

\* The match at index i, the first alternative tried first.
MatchEnd(s, i) ==
    IF CodeMatchEnd(s, i) # -1 THEN CodeMatchEnd(s, i) ELSE ImageMatchEnd(s, i)

\* combinedRegex.exec(content) with the regex lastIndex at from: the
\* leftmost match, or index -1 for null.
RegexExec(s, from) ==
    LET starts == { i \in from..Len(s) : MatchEnd(s, i) # -1 }
    IN  IF starts = {} THEN [index |-> -1, end |-> -1]
        ELSE LET i == CHOOSE i \in starts : \A j \in starts : i <= j
             IN  [index |-> i, end |-> MatchEnd(s, i)]

TextPart(src) == [kind |-> "text", src |-> src, language |-> <<>>]

\* The element pushed for a match: a CodeBlock with its language, or an image.
MatchPart(s, m) ==
    LET src == Slice(s, m.index, m.end) IN
    IF StartsWith(src, Fence)
    THEN LET k == WordRun(s, m.index + 3) IN
         [kind |-> "code", src |-> src,
          language |-> IF k > 0 THEN Slice(s, m.index + 3, m.index + 3 + k)
                       ELSE <<"c", "o", "d", "e">>]
    ELSE [kind |-> "image", src |-> src, language |-> <<>>]

\* lastIndex set one character past the end of the match
NextLastIndexSkipping(m) == m.end + 1

\* The new value of lastIndex after a match.
NextLastIndex(m) == m.end

\* The pieces a test message is made of.
RenderPieces ==
    { Fence, <<"j">>, <<"\n">>, <<"!", "[">>, <<"]", "(">>, <<")">>,
      <<"!", "[", "s", "]", "(", "s", ")">>,
      Fence \o <<"s", "\n", "s">> \o Fence }

MaxPieces == 4

RenderInit ==
    /\ \E n \in 0..MaxPieces : \E ps \in [1..n -> RenderPieces] : rContent = Flatten(ps)
    /\ rLastIndex = 0
    /\ rParts = <<>>
    /\ rPc = "loop"

\* One turn of the while loop: a match is found, the text before it and the
\* match itself are pushed.
RenderMatch ==
    /\ rPc = "loop"
    /\ LET m == RegexExec(rContent, rLastIndex) IN
       /\ m.index # -1
       /\ rParts' = rParts
              \o (IF m.index > rLastIndex
                  THEN <<TextPart(Slice(rContent, rLastIndex, m.index))>> ELSE <<>>)
              \o <<MatchPart(rContent, m)>>
       /\ rLastIndex' = NextLastIndex(m)
    /\ UNCHANGED <<rContent, rPc>>
    /\ UNCHANGED nonRenderVars

\* exec answers null: the remaining text is pushed, and a message without any
\* part is returned as one span.
RenderRest ==
    /\ rPc = "loop"
    /\ RegexExec(rContent, rLastIndex).index = -1
    /\ LET parts == rParts
              \o (IF rLastIndex < Len(rContent)
                  THEN <<TextPart(SliceFrom(rContent, rLastIndex))>> ELSE <<>>)
       IN  rParts' = IF Len(parts) > 0 THEN parts ELSE <<TextPart(rContent)>>
    /\ rPc' = "done"
    /\ UNCHANGED <<rContent, rLastIndex>>
    /\ UNCHANGED nonRenderVars

RenderNext == RenderMatch \/ RenderRest

RenderSpecInit == RenderInit /\ StreamIdle /\ DbIdle /\ MigIdle /\ AcctIdle /\ ChatIdle
        /\ VideoIdle /\ AnalyzeIdle

RenderSpec == RenderSpecInit /\ [][RenderNext]_vars

PartSources(parts) == Flatten([i \in 1..Len(parts) |-> parts[i].src])

\* A text that holds a complete code block: a fence, optional word characters,
\* a newline and a later fence.
HasClosedFence(s) == \E i \in 0..Len(s) : CodeMatchEnd(s, i) # -1

\* C3: the segments cover the content exactly once and in order; a code
\* segment is a fenced block, one without a language tag has language "code";
\* a message without a closed fence yields no code segment.
C3_SegmentsCoverContent ==
    /\ PartSources(rParts) = Slice(rContent, 0, rLastIndex)
           \o (IF rPc = "done" THEN SliceFrom(rContent, rLastIndex) ELSE <<>>)
    /\ \A i \in 1..Len(rParts) :
          /\ rParts[i].kind \in {"text", "code", "image"}
          /\ rParts[i].kind = "code" =>
                /\ StartsWith(rParts[i].src, Fence)
                /\ EndsWith(rParts[i].src, Fence)
                /\ Len(rParts[i].src) >= 7
                /\ rParts[i].src[4] = "\n" <=> rParts[i].language = <<"c", "o", "d", "e">>
                /\ rParts[i].src[4] # "\n" =>
                      /\ StartsWith(SliceFrom(rParts[i].src, 3), rParts[i].language \o <<"\n">>)
                      /\ \A j \in 1..Len(rParts[i].language) : rParts[i].language[j] \in WordChars
          /\ rParts[i].kind = "image" =>
                /\ StartsWith(rParts[i].src, <<"!", "[">>)
                /\ EndsWith(rParts[i].src, <<")">>)
          /\ rParts[i].kind = "text" /\ Len(rContent) > 0 => rParts[i].src # <<>>
    /\ rPc = "done" /\ ~HasClosedFence(rContent) =>
          \A i \in 1..Len(rParts) : rParts[i].kind # "code"

\* A message with a tagged code block, an image and an unterminated fence has
\* been split.
C3_Witness ==
    /\ rPc = "done"
    /\ PartSources(rParts) = rContent
    /\ \E i \in 1..Len(rParts) : rParts[i].kind = "code" /\ rParts[i].language = <<"s">>
    /\ \E i \in 1..Len(rParts) : rParts[i].kind = "image"
    /\ rParts[Len(rParts)].kind = "text"
    /\ StartsWith(rParts[Len(rParts)].src, Fence)

(***************************************************************************)
(* Row-level security: messages and the chat-files bucket.                 *)
(***************************************************************************)
Users == {"u1", "u2"}

\* The values of auth.uid(): NULL for a request without a signed-in user.
Uids == Users \cup {NULL}

ConvIds == {"c1", "c2"}

\* Object names as uploadFile builds them: the conversation id, a slash and a
\* file part.
ObjectName == [c \in ConvIds |-> IF c = "c1" THEN "c1/f" ELSE "c2/f"]
ObjectNames == { ObjectName[c] : c \in ConvIds }

\* The conversation id an object name starts with.
NamePrefix(name) == CHOOSE c \in ConvIds : ObjectName[c] = name

\* The value of dbMessages for an id without a row.
NoRow == [conversation_id |-> NULL, file_url |-> NULL]

Buckets == {"chat-files", "avatars"}

MaxMessages == 2
MsgIds == 1..MaxMessages

\* a = b in SQL: never true when a side is NULL
SqlEq(a, b) == a # NULL /\ b # NULL /\ a = b

\* the subquery without c.user_id = auth.uid()
ObjectReferencedByAnyone(uid, name) ==
    \E id \in MsgIds :
        /\ dbMessages[id] # NoRow
        /\ SqlEq(dbMessages[id].file_url, name)

\* EXISTS (SELECT 1 FROM public.messages m JOIN public.conversations c
\*         ON c.id = m.conversation_id
\*         WHERE m.file_url = storage.objects.name AND c.user_id = auth.uid())
ObjectReferencedByUser(uid, name) ==
    \E id \in MsgIds :
        /\ dbMessages[id] # NoRow
        /\ SqlEq(dbMessages[id].file_url, name)
        /\ SqlEq(conversations[dbMessages[id].conversation_id], uid)

\* "Users can view files in their conversations": USING
ObjectSelectPolicy(uid, bucket, name) ==
    bucket = "chat-files" /\ ObjectReferencedByUser(uid, name)

\* "Users can upload files to their conversations": WITH CHECK
ObjectInsertPolicy(uid, bucket, name) ==
    bucket = "chat-files" /\ uid # NULL

\* "Users can delete their own files": USING
ObjectDeletePolicy(uid, bucket, name) ==
    bucket = "chat-files" /\ ObjectReferencedByUser(uid, name)

\* EXISTS (SELECT 1 FROM conversations WHERE conversations.id =
\*         messages.conversation_id AND conversations.user_id = auth.uid()),
\* of a policy TO authenticated
ConversationOwnedBy(uid, row) ==
    uid # NULL /\ SqlEq(conversations[row.conversation_id], uid)

\* "Users can update messages in their conversations": USING, on the old row
MessageUpdateUsing(uid, oldRow) == ConversationOwnedBy(uid, oldRow)

\* WITH CHECK left to default to USING, which looks at the old row only
MessageUpdateCheckOldRow(uid, oldRow, newRow) == ConversationOwnedBy(uid, oldRow)

\* "Users can update messages in their conversations": WITH CHECK, on the new row
MessageUpdateCheck(uid, oldRow, newRow) == ConversationOwnedBy(uid, newRow)

\* "Users can delete messages in their conversations": USING
MessageDeleteUsing(uid, row) == ConversationOwnedBy(uid, row)

\* The insert policy of public.messages: the inserting user owns the
\* conversation of the new row.
MessageInsertCheck(uid, row) == ConversationOwnedBy(uid, row)

DbInit ==
    /\ conversations = [c \in ConvIds |-> NULL]
    /\ dbMessages = [id \in MsgIds |-> NoRow]
    /\ objects = {}
    /\ lastOp = NoOp

\* createNewConversation / sendMessage: insert { user_id: user.id }
CreateConversation ==
    \E uid \in Users : \E c \in ConvIds :
        /\ conversations[c] = NULL
        /\ conversations' = [conversations EXCEPT ![c] = uid]
        /\ lastOp' = [NoOp EXCEPT !.op = "create_conversation", !.uid = uid, !.conv = c]
        /\ UNCHANGED <<dbMessages, objects>>
        /\ UNCHANGED nonDbVars

\* INSERT INTO public.messages
InsertMessage ==
    \E uid \in Uids : \E id \in MsgIds : \E c \in ConvIds : \E f \in ObjectNames \cup {NULL} :
        LET row == [conversation_id |-> c, file_url |-> f] IN
        /\ dbMessages[id] = NoRow
        /\ conversations[c] # NULL
        /\ MessageInsertCheck(uid, row)
        /\ dbMessages' = [dbMessages EXCEPT ![id] = row]
        /\ lastOp' = [NoOp EXCEPT !.op = "insert_message", !.uid = uid, !.conv = c]
        /\ UNCHANGED <<conversations, objects>>
        /\ UNCHANGED nonDbVars

\* UPDATE public.messages SET conversation_id = c, file_url = f WHERE id = id
UpdateMessage ==
    \E uid \in Uids : \E id \in MsgIds : \E c \in ConvIds : \E f \in ObjectNames \cup {NULL} :
        LET newRow == [conversation_id |-> c, file_url |-> f] IN
        /\ dbMessages[id] # NoRow
        /\ conversations[c] # NULL
        /\ MessageUpdateUsing(uid, dbMessages[id])
        /\ MessageUpdateCheck(uid, dbMessages[id], newRow)
        /\ dbMessages' = [dbMessages EXCEPT ![id] = newRow]
        /\ lastOp' = [NoOp EXCEPT !.op = "update_message", !.uid = uid,
                                  !.conv = dbMessages[id].conversation_id, !.conv2 = c]
        /\ UNCHANGED <<conversations, objects>>
        /\ UNCHANGED nonDbVars

\* DELETE FROM public.messages WHERE id = id
DeleteMessage ==
    \E uid \in Uids : \E id \in MsgIds :
        /\ dbMessages[id] # NoRow
        /\ MessageDeleteUsing(uid, dbMessages[id])
        /\ dbMessages' = [dbMessages EXCEPT ![id] = NoRow]
        /\ lastOp' = [NoOp EXCEPT !.op = "delete_message", !.uid = uid,
                                  !.conv = dbMessages[id].conversation_id]
        /\ UNCHANGED <<conversations, objects>>
        /\ UNCHANGED nonDbVars

\* supabase.storage.from(bucket).upload(name, file)
UploadObject ==
    \E uid \in Uids : \E b \in Buckets : \E name \in ObjectNames :
        /\ <<b, name>> \notin objects
        /\ ObjectInsertPolicy(uid, b, name)
        /\ objects' = objects \cup {<<b, name>>}
        /\ lastOp' = [NoOp EXCEPT !.op = "upload_object", !.uid = uid, !.name = name]
        /\ UNCHANGED <<conversations, dbMessages>>
        /\ UNCHANGED nonDbVars

\* supabase.storage.from(bucket).download(name)
ReadObject ==
    \E uid \in Uids : \E b \in Buckets : \E name \in ObjectNames :
        /\ <<b, name>> \in objects
        /\ ObjectSelectPolicy(uid, b, name)
        /\ lastOp' = [NoOp EXCEPT !.op = "read_object", !.uid = uid, !.name = name]
        /\ UNCHANGED <<conversations, dbMessages, objects>>
        /\ UNCHANGED nonDbVars

\* supabase.storage.from(bucket).remove([name])
DeleteObject ==
    \E uid \in Uids : \E b \in Buckets : \E name \in ObjectNames :
        /\ <<b, name>> \in objects
        /\ ObjectDeletePolicy(uid, b, name)
        /\ objects' = objects \ {<<b, name>>}
        /\ lastOp' = [NoOp EXCEPT !.op = "delete_object", !.uid = uid, !.name = name]
        /\ UNCHANGED <<conversations, dbMessages>>
        /\ UNCHANGED nonDbVars

DbNext ==
    \/ CreateConversation
    \/ InsertMessage
    \/ UpdateMessage
    \/ DeleteMessage
    \/ UploadObject
    \/ ReadObject
    \/ DeleteObject

DbSpecInit == DbInit /\ StreamIdle /\ RenderIdle /\ MigIdle /\ AcctIdle /\ ChatIdle
        /\ VideoIdle /\ AnalyzeIdle

DbSpec == DbSpecInit /\ [][DbNext]_vars

\* Some message with this file_url belongs to a conversation of this user.
SomeOwnMessageReferences(uid, name) ==
    \E id \in MsgIds :
        /\ dbMessages[id] # NoRow
        /\ dbMessages[id].file_url = name
        /\ conversations[dbMessages[id].conversation_id] = uid

\* C4: an object of chat-files is read or deleted only by a signed-in user one
\* of whose conversations holds a message with the object name as file_url;
\* an object that only other users' conversations reference can be neither
\* read nor deleted.
C4_ObjectAccessNeedsOwnMessage ==
    /\ lastOp.op \in {"read_object", "delete_object"} =>
          /\ lastOp.uid \in Users
          /\ SomeOwnMessageReferences(lastOp.uid, lastOp.name)
    /\ \A uid \in Uids : \A b \in Buckets : \A name \in ObjectNames :
          ~SomeOwnMessageReferences(uid, name) =>
              /\ ~ObjectSelectPolicy(uid, b, name)
              /\ ~ObjectDeletePolicy(uid, b, name)

\* u1 has deleted an object that messages of both users reference.
C4_Witness ==
    /\ lastOp.op = "delete_object"
    /\ lastOp.uid = "u1"
    /\ SomeOwnMessageReferences("u1", lastOp.name)
    /\ SomeOwnMessageReferences("u2", lastOp.name)

\* C5: an object is uploaded to chat-files only under a conversation of the
\* uploading user.
C5_UploadOnlyToOwnConversation ==
    lastOp.op = "upload_object" /\ conversations[NamePrefix(lastOp.name)] # NULL =>
        conversations[NamePrefix(lastOp.name)] = lastOp.uid

\* C7: a message is updated or deleted only by the signed-in owner of its
\* conversation, and an update leaves it in a conversation of that user.
C7_MessageWriteNeedsOwnership ==
    /\ lastOp.op \in {"update_message", "delete_message"} =>
          /\ lastOp.uid \in Users
          /\ conversations[lastOp.conv] = lastOp.uid
    /\ lastOp.op = "update_message" => conversations[lastOp.conv2] = lastOp.uid

\* u1, owning both conversations, has moved a message from one to the other.
C7_Witness ==
    /\ lastOp.op = "update_message"
    /\ lastOp.uid = "u1"
    /\ lastOp.conv # lastOp.conv2


(***************************************************************************)
(* The migrations of public.profiles and its SELECT policy.  The           *)
(* migrations are applied in the order in which each drops the policy the  *)
(* one before it created.                                                  *)
(***************************************************************************)
Policy(name, cmd, roles, pred) == [name |-> name, cmd |-> cmd, roles |-> roles, pred |-> pred]

\* The policies a migration creates on public.profiles.
MigrationCreates(k) ==
    CASE k = 1 -> { Policy("Profiles are viewable by everyone", "SELECT", "public", "true"),
                    Policy("Users can update their own profile", "UPDATE", "public", "uid = id"),
                    Policy("Users can insert their own profile", "INSERT", "public", "uid = id") }
      [] k = 2 -> { Policy("Authenticated users can view profiles", "SELECT", "authenticated", "true") }
      [] k = 3 -> { Policy("Users can view their own profile", "SELECT", "authenticated", "uid = id") }

\* the third migration dropping the first policy again instead of the second
MigrationDropsCopied(k) ==
    CASE k = 1 -> {}
      [] k = 2 -> {"Profiles are viewable by everyone"}
      [] k = 3 -> {"Profiles are viewable by everyone"}

\* The names a migration hands to DROP POLICY IF EXISTS ... ON public.profiles.
MigrationDrops(k) ==
    CASE k = 1 -> {}
      [] k = 2 -> {"Profiles are viewable by everyone"}
      [] k = 3 -> {"Authenticated users can view profiles"}

LastMigration == 3

\* Whether a policy lets the request of uid through for the row of id: the
\* role the policy is for, then its predicate.
PolicyPermits(pol, uid, id) ==
    /\ pol.roles = "authenticated" => uid # NULL
    /\ pol.pred = "uid = id" => SqlEq(uid, id)

\* Row-level security: a command passes when some policy for it permits.
ProfileAllowed(cmd, uid, id) ==
    \E pol \in policies : pol.cmd = cmd /\ PolicyPermits(pol, uid, id)

MigInit ==
    /\ applied = 0
    /\ policies = {}
    /\ profiles = [u \in Users |-> NULL]
    /\ migOp = NoMigOp

\* The next migration is applied: its DROP POLICY IF EXISTS, then its CREATE
\* POLICY statements, which fail on a name that is taken.
ApplyMigration ==
    /\ applied < LastMigration
    /\ LET k    == applied + 1
           kept == { pol \in policies : pol.name \notin MigrationDrops(k) }
       IN  /\ \A pol \in MigrationCreates(k) : \A old \in kept : old.name # pol.name
           /\ policies' = kept \cup MigrationCreates(k)
           /\ applied' = k
    /\ migOp' = [NoMigOp EXCEPT !.op = "migrate"]
    /\ UNCHANGED profiles
    /\ UNCHANGED nonMigVars

\* on_auth_user_created: a new user gets a profile row
SignUp ==
    \E u \in Users :
        /\ applied >= 1
        /\ profiles[u] = NULL
        /\ profiles' = [profiles EXCEPT ![u] = "n1"]
        /\ migOp' = [NoMigOp EXCEPT !.op = "sign_up", !.id = u]
        /\ UNCHANGED <<applied, policies>>
        /\ UNCHANGED nonMigVars

\* SELECT * FROM public.profiles WHERE id = id, by uid
ReadProfile ==
    \E uid \in Uids : \E id \in Users :
        /\ profiles[id] # NULL
        /\ ProfileAllowed("SELECT", uid, id)
        /\ migOp' = [NoMigOp EXCEPT !.op = "read_profile", !.uid = uid, !.id = id]
        /\ UNCHANGED <<applied, policies, profiles>>
        /\ UNCHANGED nonMigVars

\* UPDATE public.profiles SET display_name = name WHERE id = id, by uid
UpdateProfile ==
    \E uid \in Uids : \E id \in Users : \E name \in {"n1", "n2"} :
        /\ profiles[id] # NULL
        /\ ProfileAllowed("UPDATE", uid, id)
        /\ profiles' = [profiles EXCEPT ![id] = name]
        /\ migOp' = [NoMigOp EXCEPT !.op = "update_profile", !.uid = uid, !.id = id]
        /\ UNCHANGED <<applied, policies>>
        /\ UNCHANGED nonMigVars

MigNext == ApplyMigration \/ SignUp \/ ReadProfile \/ UpdateProfile

MigSpecInit == MigInit /\ StreamIdle /\ RenderIdle /\ DbIdle /\ AcctIdle /\ ChatIdle
        /\ VideoIdle /\ AnalyzeIdle

MigSpec == MigSpecInit /\ [][MigNext]_vars

SelectPolicyNames == { pol.name : pol \in { q \in policies : q.cmd = "SELECT" } }

\* C6: each profile migration leaves exactly one SELECT policy, its own; after
\* the last one a profile row is readable by a request exactly when it comes
\* from the signed-in user whose id the row has.
C6_OneSelectPolicyOwnProfile ==
    /\ applied = 1 => SelectPolicyNames = {"Profiles are viewable by everyone"}
    /\ applied = 2 => SelectPolicyNames = {"Authenticated users can view profiles"}
    /\ applied = 3 =>
          /\ SelectPolicyNames = {"Users can view their own profile"}
          /\ Cardinality({ q \in policies : q.cmd = "SELECT" }) = 1
          /\ \A uid \in Uids : \A id \in Users :
                ProfileAllowed("SELECT", uid, id) <=> (uid \in Users /\ uid = id)
          /\ migOp.op = "read_profile" => migOp.uid \in Users /\ migOp.uid = migOp.id

\* After the last migration u1 has read its own profile, and the profile of u2
\* exists.
C6_Witness ==
    /\ applied = 3
    /\ migOp = [op |-> "read_profile", uid |-> "u1", id |-> "u1"]
    /\ profiles["u2"] # NULL


(***************************************************************************)
(* Account deletion with a grace period.  Time is counted in days; the     *)
(* browser clock that stamps deletion_scheduled_at agrees with NOW().      *)
(* Every user has a profile row (on_auth_user_created), which goes with    *)
(* the user (on delete cascade).  Requests to the backend succeed.         *)
(***************************************************************************)
\* INTERVAL '7 days'
GraceDays == 7

MaxNow == 9

\* deletion_scheduled_at DEFAULT NULL
NullTime == -1

\* a < b in SQL: never true when a side is NULL
SqlLt(a, b) == a # NullTime /\ b # NullTime /\ a < b

\* the comparison with <= in place of <
DeletionDueAtSevenDays(u) ==
    /\ scheduledAt[u] # NullTime
    /\ scheduledAt[u] <= now - GraceDays

\* WHERE deletion_scheduled_at IS NOT NULL
\*   AND deletion_scheduled_at < NOW() - INTERVAL '7 days'
DeletionDue(u) ==
    /\ scheduledAt[u] # NullTime
    /\ SqlLt(scheduledAt[u], now - GraceDays)

AcctInit ==
    /\ now = 0
    /\ authUsers = Users
    /\ scheduledAt = [u \in Users |-> NullTime]
    /\ page = [u \in Users |-> "auth"]

\* Time passes.
Tick ==
    /\ now < MaxNow
    /\ now' = now + 1
    /\ UNCHANGED <<authUsers, scheduledAt, page>>
    /\ UNCHANGED nonAcctVars

\* handleAuth, signing in with a verified email and the right password: a
\* scheduled deletion is cancelled, then the chat page is shown.
SignInPassword ==
    \E u \in authUsers :
        /\ page[u] = "auth"
        /\ scheduledAt' = [scheduledAt EXCEPT ![u] = NullTime]
        /\ page' = [page EXCEPT ![u] = "chat"]
        /\ UNCHANGED <<now, authUsers>>
        /\ UNCHANGED nonAcctVars

\* handleAuth, signInWithPassword answering that a second factor is needed:
\* the code prompt is shown.
SignInNeeds2FA ==
    \E u \in authUsers :
        /\ page[u] = "auth"
        /\ page' = [page EXCEPT ![u] = "auth2fa"]
        /\ UNCHANGED <<now, authUsers, scheduledAt>>
        /\ UNCHANGED nonAcctVars

\* handleVerify2FA with the right code: the chat page is shown.
Verify2FA ==
    \E u \in authUsers :
        /\ page[u] = "auth2fa"
        /\ page' = [page EXCEPT ![u] = "chat"]
        /\ UNCHANGED <<now, authUsers, scheduledAt>>
        /\ UNCHANGED nonAcctVars

\* handleGoogleAuth: the provider redirects to the chat page.
SignInGoogle ==
    \E u \in authUsers :
        /\ page[u] \in {"auth", "auth2fa"}
        /\ page' = [page EXCEPT ![u] = "chat"]
        /\ UNCHANGED <<now, authUsers, scheduledAt>>
        /\ UNCHANGED nonAcctVars

\* handleSignOut
SignOut ==
    \E u \in Users :
        /\ page[u] = "chat"
        /\ page' = [page EXCEPT ![u] = "auth"]
        /\ UNCHANGED <<now, authUsers, scheduledAt>>
        /\ UNCHANGED nonAcctVars

\* handleAccountDeletion: the deletion is scheduled and the user signed out.
ScheduleDeletion ==
    \E u \in authUsers :
        /\ page[u] = "chat"
        /\ scheduledAt' = [scheduledAt EXCEPT ![u] = now]
        /\ page' = [page EXCEPT ![u] = "auth"]
        /\ UNCHANGED <<now, authUsers>>
        /\ UNCHANGED nonAcctVars

\* public.delete_expired_accounts(): the users are deleted and, by cascade,
\* their profile rows.
DeleteExpiredAccounts ==
    /\ authUsers' = { u \in authUsers : ~DeletionDue(u) }
    /\ scheduledAt' = [u \in Users |-> IF u \in authUsers' THEN scheduledAt[u] ELSE NullTime]
    /\ UNCHANGED <<now, page>>
    /\ UNCHANGED nonAcctVars

AcctNext ==
    \/ Tick
    \/ SignInPassword
    \/ SignInNeeds2FA
    \/ Verify2FA
    \/ SignInGoogle
    \/ SignOut
    \/ ScheduleDeletion
    \/ DeleteExpiredAccounts

AcctSpecInit == AcctInit /\ StreamIdle /\ RenderIdle /\ DbIdle /\ MigIdle /\ ChatIdle
        /\ VideoIdle /\ AnalyzeIdle

AcctSpec == AcctSpecInit /\ [][AcctNext]_vars

\* Nothing in the repository calls delete_expired_accounts on a schedule: only
\* the passing of time is certain.
FairAcctSpec == AcctSpecInit /\ [][AcctNext]_vars /\ WF_vars(Tick)

\* C8: whenever accounts are deleted, exactly the users whose deletion was
\* scheduled more than seven days earlier go; a user without a scheduled
\* deletion, or with one at most seven days old, stays.
C8_DeletesExactlyExpired ==
    [][authUsers' # authUsers =>
          authUsers' = { u \in authUsers :
                            scheduledAt[u] = NullTime \/ scheduledAt[u] >= now - GraceDays }]_vars

\* u1, scheduled more than seven days ago, is gone; u2, scheduled exactly seven
\* days ago, is still there.
C8_Witness ==
    /\ "u1" \notin authUsers
    /\ "u2" \in authUsers
    /\ scheduledAt["u2"] # NullTime
    /\ scheduledAt["u2"] = now - GraceDays

\* C9: a sign-in that brings a user to the chat page leaves no deletion
\* scheduled for that user.
C9_SignInCancelsDeletion ==
    [][\A u \in Users :
          (u \in authUsers /\ page[u] # "chat" /\ page'[u] = "chat") =>
              scheduledAt'[u] = NullTime]_vars

\* C10: an account whose deletion was scheduled more than seven days ago is
\* eventually deleted, unless the deletion is cancelled or scheduled anew.
C10_ExpiredEventuallyDeleted ==
    \A u \in Users :
        (u \in authUsers /\ DeletionDue(u)) ~> (u \notin authUsers \/ ~DeletionDue(u))


(***************************************************************************)
(* The Chat page.  A handler runs to its next await in one step; what it   *)
(* read from the React state when it was invoked (input, selectedFile,     *)
(* currentConversation, messages) it keeps for the rest of its run: conv,  *)
(* inp, file, and from messages the index it works at (idx), the id of the *)
(* message there (mid) and the ids of the rows it will delete (del).  The  *)
(* user is signed in.  A file is its size in bytes.  toast is the          *)
(* description of the toast a step shows, "none" when it shows none.       *)
(***************************************************************************)
MaxInv == 2

MaxRows == 2

MAX_MESSAGE_LENGTH == 4000

\* useState<string | null>(null)
NoConversation == 0

\* useState<string | null>(null)
NoMessage == 0

\* crypto.randomUUID() for a message that has no row
LocalId == -1

\* useState<File | null>(null)
NoFile == -1

\* 10 * 1024 * 1024
MAX_FILE_BYTES == 10485760

\* the sizes of the files the user can pick
FileSizes == { MAX_FILE_BYTES, MAX_FILE_BYTES + 1 }

\* file.size > 100 * 1024 * 1024: the limit with a digit too many
FileTooLargeAt100MB(size) == size > 10 * MAX_FILE_BYTES

\* file.size > 10 * 1024 * 1024
FileTooLarge(size) == size > MAX_FILE_BYTES

\* file.name
FileName == <<"f">>

\* the template literal Sent file: ${fileData.name}
SentFile(name) == <<"S", "e", "n", "t", " ", "f", "i", "l", "e", ":", " ">> \o name

\* the text of an assistant message
AssistantText == <<"r">>

\* what the user can type
Inputs == { <<>>, <<" ">>, <<"a">> }

\* messageSchema: content.trim() has 1 to MAX_MESSAGE_LENGTH characters
MessageSchemaOk(s) == Len(Trim(s)) >= 1 /\ Len(Trim(s)) <= MAX_MESSAGE_LENGTH

IdleInv == [kind |-> "none", pc |-> "idle", conv |-> NoConversation, inp |-> <<>>,
            file |-> NoFile, idx |-> 0, mid |-> NoMessage, del |-> {}]

\* the first slot that holds no invocation
FreeSlot(i) ==
    /\ inv[i].kind = "none"
    /\ \A j \in 1..(i - 1) : inv[j].kind # "none"

\* select("*").eq("conversation_id", conversationId).order("created_at")
RowsOf(conv) ==
    LET InConv(r) == r.conv = conv
        rows == SelectSeq(chatRows, InConv)
    IN  [k \in 1..Len(rows) |->
            [id |-> rows[k].id, role |-> rows[k].role, content |-> rows[k].content]]

\* delete().in("id", ids)
RowsWithout(ids) ==
    LET Kept(r) == r.id \notin ids
    IN  SelectSeq(chatRows, Kept)

\* messages.findIndex(m => m.id === id), counted from 1; 0 when there is none
FindIndex(msgs, id) ==
    IF \E k \in 1..Len(msgs) : msgs[k].id = id
    THEN CHOOSE k \in 1..Len(msgs) : msgs[k].id = id /\ \A j \in 1..(k - 1) : msgs[j].id # id
    ELSE 0

ChatInit ==
    /\ isLoading = FALSE
    /\ isUploading = FALSE
    /\ input = <<>>
    /\ selectedFile = NoFile
    /\ currentConversation = NoConversation
    /\ messages = <<>>
    /\ editingMessageId = NoMessage
    /\ editingContent = <<>>
    /\ chatRows = <<>>
    /\ rowCount = 0
    /\ convCount = 0
    /\ inv = [i \in 1..MaxInv |-> IdleInv]
    /\ toast = "none"

\* Textarea onChange, with maxLength={MAX_MESSAGE_LENGTH}
TypeInputFrom(texts) ==
    \E s \in texts :
        /\ Len(s) <= MAX_MESSAGE_LENGTH
        /\ input' = s
        /\ toast' = "none"
        /\ UNCHANGED <<isLoading, isUploading, selectedFile, currentConversation, messages,
                       editingMessageId, editingContent, chatRows, rowCount, convCount, inv>>
        /\ UNCHANGED nonChatVars

TypeInput == TypeInputFrom(Inputs)

\* a text of n characters
Text(n) == [k \in 1..n |-> "a"]

\* texts about as long as the schema allows
LongInputs ==
    { Text(MAX_MESSAGE_LENGTH - 1), Text(MAX_MESSAGE_LENGTH),
      Text(MAX_MESSAGE_LENGTH - 1) \o <<" ">> }

TypeLongInput == TypeInputFrom(LongInputs)

\* how far from MAX_MESSAGE_LENGTH the dictated texts looked at lie
MaxOver == 2

\* handleVoiceTranscript, for a text within MaxOver of MAX_MESSAGE_LENGTH
VoiceTranscript ==
    \E transcript \in { <<"a">> } :
        /\ Len(input) >= MAX_MESSAGE_LENGTH - MaxOver
        /\ input' = input \o (IF input # <<>> THEN <<" ">> ELSE <<>>) \o transcript
        /\ Len(input') <= MAX_MESSAGE_LENGTH + MaxOver
        /\ toast' = "none"
        /\ UNCHANGED <<isLoading, isUploading, selectedFile, currentConversation, messages,
                       editingMessageId, editingContent, chatRows, rowCount, convCount, inv>>
        /\ UNCHANGED nonChatVars

\* handleFileSelect
SelectFile ==
    \E size \in FileSizes :
        /\ IF FileTooLarge(size)
           THEN toast' = "Maximum file size is 10MB" /\ UNCHANGED selectedFile
           ELSE toast' = "none" /\ selectedFile' = size
        /\ UNCHANGED <<isLoading, isUploading, input, currentConversation, messages,
                       editingMessageId, editingContent, chatRows, rowCount, convCount, inv>>
        /\ UNCHANGED nonChatVars

\* the button that removes the selected file
ClearFile ==
    /\ selectedFile # NoFile
    /\ selectedFile' = NoFile
    /\ toast' = "none"
    /\ UNCHANGED <<isLoading, isUploading, input, currentConversation, messages,
                   editingMessageId, editingContent, chatRows, rowCount, convCount, inv>>
    /\ UNCHANGED nonChatVars

\* startEditingMessage; the pencil is shown on user messages while not loading
StartEditing ==
    \E k \in 1..Len(messages) :
        /\ ~isLoading
        /\ messages[k].role = "user"
        /\ editingMessageId' = messages[k].id
        /\ editingContent' = messages[k].content
        /\ toast' = "none"
        /\ UNCHANGED <<isLoading, isUploading, input, selectedFile, currentConversation,
                       messages, chatRows, rowCount, convCount, inv>>
        /\ UNCHANGED nonChatVars

\* the edit Textarea onChange
EditContent ==
    \E s \in Inputs :
        /\ editingMessageId # NoMessage
        /\ editingContent' = s
        /\ toast' = "none"
        /\ UNCHANGED <<isLoading, isUploading, input, selectedFile, currentConversation,
                       messages, editingMessageId, chatRows, rowCount, convCount, inv>>
        /\ UNCHANGED nonChatVars

\* cancelEditing
CancelEditing ==
    /\ editingMessageId # NoMessage
    /\ editingMessageId' = NoMessage
    /\ editingContent' = <<>>
    /\ toast' = "none"
    /\ UNCHANGED <<isLoading, isUploading, input, selectedFile, currentConversation,
                   messages, chatRows, rowCount, convCount, inv>>
    /\ UNCHANGED nonChatVars

\* the finally around the request: setIsLoading(false), and the handler
\* returns
Finish(i) ==
    /\ isLoading' = FALSE
    /\ inv' = [inv EXCEPT ![i] = IdleInv]

\* the catch around the request without the finally: isLoading stays set
FailWithoutFinally(i) ==
    /\ toast' = "error.message"
    /\ inv' = [inv EXCEPT ![i] = IdleInv]
    /\ UNCHANGED isLoading

\* the catch around the request: a toast with error.message, then the finally
Fail(i) ==
    /\ toast' = "error.message"
    /\ Finish(i)

\* input.trim() || selectedFile, with the trim forgotten
HasContentUntrimmed(inp, file) == inp # <<>> \/ file # NoFile

\* input.trim() || selectedFile
HasContent(inp, file) == Trim(inp) # <<>> \/ file # NoFile

\* content: input || (fileData ? the Sent file text : "")
UserContent(inp, file) ==
    IF inp # <<>> THEN inp
    ELSE IF file # NoFile THEN SentFile(FileName) ELSE <<>>

\* sendMessage returning before it does anything: busy (no toast), nothing to
\* send, or a text the schema refuses
SendRejected ==
    /\ \/ (isLoading \/ isUploading) /\ toast' = "none"
       \/ /\ ~(isLoading \/ isUploading)
          /\ ~HasContent(input, selectedFile)
          /\ toast' = "Please enter a message or attach a file"
       \/ /\ ~(isLoading \/ isUploading)
          /\ HasContent(input, selectedFile)
          /\ Trim(input) # <<>> /\ ~MessageSchemaOk(input)
          /\ toast' = "Message must be less than 4000 characters"
    /\ UNCHANGED <<isLoading, isUploading, input, selectedFile, currentConversation,
                   messages, editingMessageId, editingContent, chatRows, rowCount,
                   convCount, inv>>
    /\ UNCHANGED nonChatVars

\* sendMessage, from the form or the Enter key, up to its first await
SendStart ==
    \E i \in 1..MaxInv :
        /\ FreeSlot(i)
        /\ ~(isLoading \/ isUploading)
        /\ HasContent(input, selectedFile)
        /\ Trim(input) # <<>> => MessageSchemaOk(input)
        /\ inv' = [inv EXCEPT ![i] =
                     [kind |-> "send",
                      pc |-> IF currentConversation = NoConversation THEN "conv"
                             ELSE IF selectedFile # NoFile THEN "upload" ELSE "insert",
                      conv |-> currentConversation, inp |-> input, file |-> selectedFile,
                      idx |-> 0, mid |-> NoMessage, del |-> {}]]
        /\ isUploading' = (currentConversation # NoConversation /\ selectedFile # NoFile)
        /\ toast' = "none"
        /\ UNCHANGED <<isLoading, input, selectedFile, currentConversation, messages,
                       editingMessageId, editingContent, chatRows, rowCount, convCount>>
        /\ UNCHANGED nonChatVars

\* sendMessage: the insert of the conversation has answered
SendConvDone ==
    \E i \in 1..MaxInv, ok \in BOOLEAN :
        /\ inv[i].kind = "send" /\ inv[i].pc = "conv"
        /\ IF ok
           THEN /\ convCount' = convCount + 1
                /\ currentConversation' = convCount + 1
                /\ inv' = [inv EXCEPT ![i].conv = convCount + 1,
                                      ![i].pc = IF inv[i].file # NoFile THEN "upload"
                                                ELSE "insert"]
                /\ isUploading' = (isUploading \/ inv[i].file # NoFile)
                /\ toast' = "none"
           ELSE /\ inv' = [inv EXCEPT ![i] = IdleInv]
                /\ toast' = "Failed to create conversation"
                /\ UNCHANGED <<convCount, currentConversation, isUploading>>
        /\ UNCHANGED <<isLoading, input, selectedFile, messages, editingMessageId,
                       editingContent, chatRows, rowCount>>
        /\ UNCHANGED nonChatVars

\* sendMessage: uploadFile has answered
SendUploadDone ==
    \E i \in 1..MaxInv, ok \in BOOLEAN :
        /\ inv[i].kind = "send" /\ inv[i].pc = "upload"
        /\ isUploading' = FALSE
        /\ inv' = [inv EXCEPT ![i] = IF ok THEN [@ EXCEPT !.pc = "insert"] ELSE IdleInv]
        /\ toast' = IF ok THEN "none" ELSE "Upload failed"
        /\ UNCHANGED <<isLoading, input, selectedFile, currentConversation, messages,
                       editingMessageId, editingContent, chatRows, rowCount, convCount>>
        /\ UNCHANGED nonChatVars

\* sendMessage: the insert of the user message has answered
SendInsertDone ==
    \E i \in 1..MaxInv, ok \in BOOLEAN :
        /\ inv[i].kind = "send" /\ inv[i].pc = "insert"
        /\ ok => rowCount < MaxRows
        /\ IF ok
           THEN /\ chatRows' = Append(chatRows,
                                      [id |-> rowCount + 1, conv |-> inv[i].conv,
                                       role |-> "user",
                                       content |-> UserContent(inv[i].inp, inv[i].file)])
                /\ rowCount' = rowCount + 1
                /\ input' = <<>>
                /\ selectedFile' = NoFile
                /\ isLoading' = TRUE
                /\ inv' = [inv EXCEPT ![i].pc = "load", ![i].inp = <<>>, ![i].file = NoFile]
                /\ toast' = "none"
           ELSE /\ inv' = [inv EXCEPT ![i] = IdleInv]
                /\ toast' = "Failed to save message"
                /\ UNCHANGED <<chatRows, rowCount, input, selectedFile, isLoading>>
        /\ UNCHANGED <<isUploading, currentConversation, messages, editingMessageId,
                       editingContent, convCount>>
        /\ UNCHANGED nonChatVars

\* sendMessage: loadMessages has answered; the request is sent
SendLoadDone ==
    \E i \in 1..MaxInv, ok \in BOOLEAN :
        /\ inv[i].kind = "send" /\ inv[i].pc = "load"
        /\ messages' = IF ok THEN RowsOf(inv[i].conv) ELSE messages
        /\ inv' = [inv EXCEPT ![i].pc = "fetch"]
        /\ toast' = "none"
        /\ UNCHANGED <<isLoading, isUploading, input, selectedFile, currentConversation,
                       editingMessageId, editingContent, chatRows, rowCount, convCount>>
        /\ UNCHANGED nonChatVars

\* regenerateResponse(messageIndex), from the button under an assistant
\* message, up to its first await
RegenStart ==
    \E i \in 1..MaxInv, k \in 2..Len(messages) :
        /\ FreeSlot(i)
        /\ ~(currentConversation = NoConversation \/ isLoading)
        /\ messages[k].role = "assistant"
        /\ messages[k - 1].role = "user"
        /\ inv' = [inv EXCEPT ![i] =
                     [kind |-> "regen", pc |-> "delete", conv |-> currentConversation,
                      inp |-> <<>>, file |-> NoFile, idx |-> k, mid |-> messages[k].id,
                      del |-> { messages[k].id }]]
        /\ toast' = "none"
        /\ UNCHANGED <<isLoading, isUploading, input, selectedFile, currentConversation,
                       messages, editingMessageId, editingContent, chatRows, rowCount,
                       convCount>>
        /\ UNCHANGED nonChatVars

\* regenerateResponse: the delete of the assistant message has answered; the
\* request is sent
RegenDeleteDone ==
    \E i \in 1..MaxInv :
        /\ inv[i].kind = "regen" /\ inv[i].pc = "delete"
        /\ chatRows' = RowsWithout(inv[i].del)
        /\ messages' = LET kept == { k \in 1..Len(messages) : k # inv[i].idx }
                           Nth(n) == CHOOSE k \in kept : Cardinality({ j \in kept : j < k }) = n - 1
                       IN  [n \in 1..Cardinality(kept) |-> messages[Nth(n)]]
        /\ isLoading' = TRUE
        /\ inv' = [inv EXCEPT ![i].pc = "fetch"]
        /\ toast' = "none"
        /\ UNCHANGED <<isUploading, input, selectedFile, currentConversation,
                       editingMessageId, editingContent, rowCount, convCount>>
        /\ UNCHANGED nonChatVars

\* saveEditedMessage(message.id), from Save and Resend, up to its first await
EditStart ==
    \E i \in 1..MaxInv :
        /\ FreeSlot(i)
        /\ FindIndex(messages, editingMessageId) # 0
        /\ ~isLoading
        /\ ~(Trim(editingContent) = <<>> \/ currentConversation = NoConversation)
        /\ inv' = [inv EXCEPT ![i] =
                     [kind |-> "edit", pc |-> "update", conv |-> currentConversation,
                      inp |-> editingContent, file |-> NoFile,
                      idx |-> FindIndex(messages, editingMessageId), mid |-> editingMessageId,
                      del |-> { messages[k].id :
                                  k \in (FindIndex(messages, editingMessageId) + 1)..Len(messages) }]]
        /\ toast' = "none"
        /\ UNCHANGED <<isLoading, isUploading, input, selectedFile, currentConversation,
                       messages, editingMessageId, editingContent, chatRows, rowCount,
                       convCount>>
        /\ UNCHANGED nonChatVars

\* saveEditedMessage after its deletes: the later messages leave the list, the
\* editor closes, the request is sent
EditResume(i) ==
    /\ messages' = LET kept == Slice(messages, 0, inv[i].idx)
                   IN  [k \in 1..Len(kept) |->
                           IF kept[k].id = inv[i].mid
                           THEN [kept[k] EXCEPT !.content = inv[i].inp] ELSE kept[k]]
    /\ editingMessageId' = NoMessage
    /\ editingContent' = <<>>
    /\ isLoading' = TRUE
    /\ inv' = [inv EXCEPT ![i].pc = "fetch", ![i].inp = <<>>]
    /\ toast' = "none"

\* update({ content: editingContent }).eq("id", messageId)
RowsEdited(rows, id, content) ==
    [k \in 1..Len(rows) |->
        IF rows[k].id = id THEN [rows[k] EXCEPT !.content = content] ELSE rows[k]]

\* saveEditedMessage: the update of the message has answered
EditUpdateDone ==
    \E i \in 1..MaxInv, ok \in BOOLEAN :
        /\ inv[i].kind = "edit" /\ inv[i].pc = "update"
        /\ chatRows' = IF ok THEN RowsEdited(chatRows, inv[i].mid, inv[i].inp) ELSE chatRows
        /\ IF ~ok
           THEN /\ inv' = [inv EXCEPT ![i] = IdleInv]
                /\ toast' = "Failed to update message"
                /\ UNCHANGED <<messages, editingMessageId, editingContent, isLoading>>
           ELSE IF inv[i].del # {}
           THEN /\ inv' = [inv EXCEPT ![i].pc = "editdelete"]
                /\ toast' = "none"
                /\ UNCHANGED <<messages, editingMessageId, editingContent, isLoading>>
           ELSE EditResume(i)
        /\ UNCHANGED <<isUploading, input, selectedFile, currentConversation, rowCount,
                       convCount>>
        /\ UNCHANGED nonChatVars

\* saveEditedMessage: the delete of the later messages has answered
EditDeleteDone ==
    \E i \in 1..MaxInv :
        /\ inv[i].kind = "edit" /\ inv[i].pc = "editdelete"
        /\ chatRows' = RowsWithout(inv[i].del)
        /\ EditResume(i)
        /\ UNCHANGED <<isUploading, input, selectedFile, currentConversation, rowCount,
                       convCount>>
        /\ UNCHANGED nonChatVars

\* fetch of the chat function has answered: a body to read, or a status that
\* is not OK or no body, which throws
FetchDone ==
    \E i \in 1..MaxInv, answer \in {"body", "not ok", "no body"} :
        /\ inv[i].pc = "fetch"
        /\ IF answer = "body"
           THEN inv' = [inv EXCEPT ![i].pc = "reading"] /\ toast' = "none" /\ UNCHANGED isLoading
           ELSE Fail(i)
        /\ UNCHANGED <<isUploading, input, selectedFile, currentConversation, messages,
                       editingMessageId, editingContent, chatRows, rowCount, convCount>>
        /\ UNCHANGED nonChatVars

\* reader.read() gave a chunk with content: the last message, when it is the
\* assistant's, shows it, else a new message is appended
ReadContent ==
    \E i \in 1..MaxInv :
        /\ inv[i].pc = "reading"
        /\ messages' = IF Len(messages) > 0 /\ messages[Len(messages)].role = "assistant"
                       THEN messages
                       ELSE Append(messages, [id |-> LocalId, role |-> "assistant",
                                              content |-> AssistantText])
        /\ toast' = "none"
        /\ UNCHANGED <<isLoading, isUploading, input, selectedFile, currentConversation,
                       editingMessageId, editingContent, chatRows, rowCount, convCount, inv>>
        /\ UNCHANGED nonChatVars

\* reader.read() gave done, or threw
ReadEnd ==
    \E i \in 1..MaxInv, ok \in BOOLEAN :
        /\ inv[i].pc = "reading"
        /\ IF ok
           THEN inv' = [inv EXCEPT ![i].pc = "persist"] /\ toast' = "none" /\ UNCHANGED isLoading
           ELSE Fail(i)
        /\ UNCHANGED <<isUploading, input, selectedFile, currentConversation, messages,
                       editingMessageId, editingContent, chatRows, rowCount, convCount>>
        /\ UNCHANGED nonChatVars

\* the insert of the assistant message has answered (its error is not looked
\* at); sendMessage goes on to update the conversation, the others return
PersistDone ==
    \E i \in 1..MaxInv, ok \in BOOLEAN :
        /\ inv[i].pc = "persist"
        /\ ok => rowCount < MaxRows
        /\ IF ok
           THEN /\ chatRows' = Append(chatRows, [id |-> rowCount + 1, conv |-> inv[i].conv,
                                                 role |-> "assistant",
                                                 content |-> AssistantText])
                /\ rowCount' = rowCount + 1
           ELSE UNCHANGED <<chatRows, rowCount>>
        /\ IF inv[i].kind = "send"
           THEN inv' = [inv EXCEPT ![i].pc = "touch"] /\ toast' = "none" /\ UNCHANGED isLoading
           ELSE /\ Finish(i)
                /\ toast' = IF inv[i].kind = "regen" THEN "Response regenerated" ELSE "none"
        /\ UNCHANGED <<isUploading, input, selectedFile, currentConversation, messages,
                       editingMessageId, editingContent, convCount>>
        /\ UNCHANGED nonChatVars

\* sendMessage: the update of the conversation has answered
SendTouchDone ==
    \E i \in 1..MaxInv :
        /\ inv[i].kind = "send" /\ inv[i].pc = "touch"
        /\ Finish(i)
        /\ toast' = "none"
        /\ UNCHANGED <<isUploading, input, selectedFile, currentConversation, messages,
                       editingMessageId, editingContent, chatRows, rowCount, convCount>>
        /\ UNCHANGED nonChatVars

\* The page used with text messages only: no file is attached.
ChatNext ==
    \/ TypeInput
    \/ StartEditing
    \/ EditContent
    \/ CancelEditing
    \/ SendStart
    \/ SendConvDone
    \/ SendInsertDone
    \/ SendLoadDone
    \/ RegenStart
    \/ RegenDeleteDone
    \/ EditStart
    \/ EditUpdateDone
    \/ EditDeleteDone
    \/ FetchDone
    \/ ReadContent
    \/ ReadEnd
    \/ PersistDone
    \/ SendTouchDone

ChatSpecInit == ChatInit /\ StreamIdle /\ RenderIdle /\ DbIdle /\ MigIdle /\ AcctIdle
        /\ VideoIdle /\ AnalyzeIdle

ChatSpec == ChatSpecInit /\ [][ChatNext]_vars

\* the invocations that have not returned
Active == { i \in 1..MaxInv : inv[i].kind # "none" }

\* sendMessage invoked when the earlier invocations have returned
SendStartAlone == Active = {} /\ SendStart

\* C11: when the chat function answers with a status that is not OK or without
\* a body, or reading the stream throws, sendMessage returns at that step: it
\* shows the toast with the error message, leaves isLoading false, inserts no
\* row and sends no request.
C11_FailedRequestNotRetried ==
    [][\A i \in 1..MaxInv :
          ( /\ inv[i].kind = "send"
            /\ \/ inv[i].pc = "fetch" /\ inv'[i].pc \notin {"fetch", "reading"}
               \/ inv[i].pc = "reading" /\ inv'[i].pc \notin {"reading", "persist"} )
          => /\ inv'[i] = IdleInv
             /\ toast' = "error.message"
             /\ isLoading' = FALSE
             /\ chatRows' = chatRows
             /\ \A j \in 1..MaxInv : inv'[j].pc = "fetch" => inv[j].pc = "fetch"]_vars

\* A send has failed while its answer was being read: the toast shows the
\* error, the part of the answer that came is on the page and not in a row.
C11_Witness ==
    /\ toast = "error.message"
    /\ ~isLoading
    /\ Active = {}
    /\ Len(messages) = 2 /\ messages[2].id = LocalId
    /\ Len(chatRows) = 1 /\ chatRows[1].role = "user"

\* C13: sendMessage invoked with an empty or whitespace-only input and no file
\* selected leaves the page and the rows as they are and starts nothing.
C13_EmptySendDoesNothing ==
    [][(Trim(input) = <<>> /\ selectedFile = NoFile /\ (SendStart \/ SendRejected))
          => UNCHANGED <<input, messages, currentConversation, isLoading, isUploading,
                         selectedFile, chatRows, rowCount, convCount, inv>>]_vars

\* A whitespace-only message without a file has been refused on a new page.
C13_Witness ==
    /\ toast = "Please enter a message or attach a file"
    /\ input = <<" ">>
    /\ selectedFile = NoFile
    /\ chatRows = <<>> /\ convCount = 0 /\ Active = {}

\* C14: selectedFile never holds a file of more than MAX_FILE_BYTES bytes, nor
\* does an invocation of sendMessage, and a selection that is refused leaves
\* selectedFile as it was.
C14_NoFileAboveLimit ==
    /\ [](/\ selectedFile <= MAX_FILE_BYTES
          /\ \A i \in 1..MaxInv : inv[i].file <= MAX_FILE_BYTES)
    /\ [][(SelectFile /\ toast' = "Maximum file size is 10MB")
             => selectedFile' = selectedFile]_vars

\* After a message with a file has been sent, a file of exactly the limit is
\* selected and a larger one refused.
C14_Witness ==
    /\ selectedFile = MAX_FILE_BYTES
    /\ toast = "Maximum file size is 10MB"
    /\ \E k \in 1..Len(chatRows) : chatRows[k].content = SentFile(FileName)

\* The page used for sending only, one message after the other: no message is
\* edited or regenerated, and an invocation begins when the one before it has
\* returned (invocations that overlap are the subject of ChatSpec).
SendNext ==
    \/ TypeInput
    \/ SelectFile
    \/ ClearFile
    \/ SendStartAlone
    \/ SendRejected
    \/ SendConvDone
    \/ SendUploadDone
    \/ SendInsertDone
    \/ SendLoadDone
    \/ FetchDone
    \/ ReadContent
    \/ ReadEnd
    \/ PersistDone
    \/ SendTouchDone

SendSpec == ChatSpecInit /\ [][SendNext]_vars

\* The page used for sending long texts, typed or dictated, one after the
\* other and without files.
LongNext ==
    \/ TypeLongInput
    \/ VoiceTranscript
    \/ SendStartAlone
    \/ SendRejected
    \/ SendConvDone
    \/ SendInsertDone
    \/ SendLoadDone
    \/ FetchDone
    \/ ReadContent
    \/ ReadEnd
    \/ PersistDone
    \/ SendTouchDone

LongSpec == ChatSpecInit /\ [][LongNext]_vars

\* C12: every user message row that sendMessage inserts has a content of fewer
\* than MAX_MESSAGE_LENGTH characters.
C12_UserMessageShorterThanLimit ==
    \A k \in 1..Len(chatRows) :
        chatRows[k].role = "user" => Len(chatRows[k].content) < MAX_MESSAGE_LENGTH

\* the invocations that are in their reader.read() loop
Readers == { i \in 1..MaxInv : inv[i].pc = "reading" }

\* C1: at any moment at most one invocation of sendMessage, regenerateResponse
\* or saveEditedMessage is reading a response stream.
C1_AtMostOneReader == Cardinality(Readers) <= 1

(***************************************************************************)
(* The generate-video edge function.  One request is served at a time; the *)
(* handler runs to its next await on Replicate in one step.  body.prompt   *)
(* is a text, a number or absent; body.predictionId is the id of a         *)
(* prediction, 0 when absent.  A response is its status and the fields of  *)
(* its JSON body.                                                          *)
(***************************************************************************)
MaxPredictions == 2

\* body.prompt.length > 500
MAX_PROMPT_LENGTH == 500

\* the lengths of the prompts tried
PromptLengths == { 0, 1, MAX_PROMPT_LENGTH, MAX_PROMPT_LENGTH + 1 }

Prompts ==
    { NoPrompt }
        \cup { [kind |-> "string", text |-> Text(n), number |-> 0] : n \in PromptLengths }
        \cup { [kind |-> "number", text |-> <<>>, number |-> n] : n \in {0, 7} }

\* what req.json() yields; NoVideoBody is a body that is not JSON
VideoBodies ==
    { NoVideoBody }
        \cup [json : {TRUE}, predictionId : 0..MaxPredictions, prompt : Prompts]

\* new Response(JSON.stringify({ error }), { status })
ErrorResponse(status, error) ==
    [status |-> status, error |-> error, analysis |-> NULL, predictionId |-> 0,
     predictionStatus |-> NULL]

\* new Response(JSON.stringify(prediction)) and
\* new Response(JSON.stringify({ predictionId, status }), { status: 200 })
PredictionResponse(prediction) ==
    [status |-> 200, error |-> NULL, analysis |-> NULL, predictionId |-> prediction.id,
     predictionStatus |-> prediction.status]

\* new Response('ok') and new Response(null): the preflight reply
PreflightResponse == [NoResponse EXCEPT !.status = 200]

\* !body.prompt negated: the value is truthy
PromptGiven(prompt) ==
    CASE prompt.kind = "absent" -> FALSE
      [] prompt.kind = "string" -> prompt.text # <<>>
      [] prompt.kind = "number" -> prompt.number # 0

\* body.prompt.length > 500, for a prompt of 500 characters too
PromptTooLongAtLimit(prompt) ==
    prompt.kind = "string" /\ Len(prompt.text) >= MAX_PROMPT_LENGTH

\* body.prompt.length > 500; the length of a number is undefined, and
\* undefined > 500 is false
PromptTooLong(prompt) ==
    prompt.kind = "string" /\ Len(prompt.text) > MAX_PROMPT_LENGTH

VideoInit ==
    /\ REPLICATE_API_KEY \in BOOLEAN
    /\ predictions = <<>>
    /\ gvPc = "idle"
    /\ gvMethod = "none"
    /\ gvBody = NoVideoBody
    /\ gvBefore = 0
    /\ gvResponse = NoResponse

VideoRespond(response) ==
    /\ gvPc' = "done"
    /\ gvResponse' = response

\* the handler, from the arrival of a request to its first call of Replicate
GenerateVideoRequest ==
    /\ gvPc \in {"idle", "done"}
    /\ Len(predictions) < MaxPredictions
    /\ \E method \in {"OPTIONS", "POST"} :
       \E body \in IF method = "OPTIONS" THEN {NoVideoBody} ELSE VideoBodies :
          /\ gvMethod' = method
          /\ gvBody' = body
          /\ gvBefore' = Len(predictions)
          /\ IF method = "OPTIONS"
                THEN VideoRespond(PreflightResponse)
             ELSE IF ~REPLICATE_API_KEY
                THEN VideoRespond(ErrorResponse(500,
                        "Video generation is not configured. Please add your Replicate API key."))
             ELSE IF ~body.json
                THEN VideoRespond(ErrorResponse(500, "error.message"))
             ELSE IF body.predictionId # 0
                THEN gvPc' = "get" /\ gvResponse' = NoResponse
             ELSE IF ~PromptGiven(body.prompt)
                THEN VideoRespond(ErrorResponse(400,
                        "Missing required field: prompt is required"))
             ELSE IF PromptTooLong(body.prompt)
                THEN VideoRespond(ErrorResponse(400,
                        "Prompt too long. Maximum 500 characters allowed."))
             ELSE gvPc' = "create" /\ gvResponse' = NoResponse
    /\ UNCHANGED <<REPLICATE_API_KEY, predictions, nonVideoVars>>

\* await replicate.predictions.get(body.predictionId): the prediction, or an
\* exception
PredictionsGetDone ==
    /\ gvPc = "get"
    /\ \E found \in BOOLEAN :
          IF found /\ gvBody.predictionId <= Len(predictions)
             THEN VideoRespond(PredictionResponse(predictions[gvBody.predictionId]))
             ELSE VideoRespond(ErrorResponse(500, "error.message"))
    /\ UNCHANGED <<REPLICATE_API_KEY, predictions, gvMethod, gvBody, gvBefore,
                   nonVideoVars>>

\* await replicate.predictions.create(...): a new prediction, or an exception
PredictionsCreateDone ==
    /\ gvPc = "create"
    /\ \E created \in BOOLEAN :
          IF created
             THEN LET prediction == [id |-> Len(predictions) + 1, status |-> "starting",
                                     prompt |-> gvBody.prompt]
                  IN  /\ predictions' = Append(predictions, prediction)
                      /\ VideoRespond(PredictionResponse(prediction))
             ELSE /\ predictions' = predictions
                  /\ VideoRespond(ErrorResponse(500, "error.message"))
    /\ UNCHANGED <<REPLICATE_API_KEY, gvMethod, gvBody, gvBefore, nonVideoVars>>

VideoNext ==
    \/ GenerateVideoRequest
    \/ PredictionsGetDone
    \/ PredictionsCreateDone

VideoSpecInit == VideoInit /\ StreamIdle /\ RenderIdle /\ DbIdle /\ MigIdle /\ AcctIdle
        /\ ChatIdle /\ AnalyzeIdle

VideoSpec == VideoSpecInit /\ [][VideoNext]_vars

\* a generation request that has been answered: a POST whose JSON body has no
\* predictionId
GenerationAnswered ==
    gvPc = "done" /\ gvMethod = "POST" /\ gvBody.json /\ gvBody.predictionId = 0

NoneCreated == Len(predictions) = gvBefore

\* one prediction was created, and the response carries its id and status
OneCreatedAndReturned ==
    /\ Len(predictions) = gvBefore + 1
    /\ gvResponse.status = 200
    /\ gvResponse.predictionId = predictions[Len(predictions)].id
    /\ gvResponse.predictionStatus = predictions[Len(predictions)].status

TextPrompt(lo, hi) ==
    /\ gvBody.prompt.kind = "string"
    /\ Len(gvBody.prompt.text) >= lo
    /\ Len(gvBody.prompt.text) <= hi

\* C15 as stated: a generation request with a missing or empty prompt, or with
\* a prompt of more than 500 characters, is answered with 400 and creates no
\* prediction; one with a prompt of 1 to 500 characters creates exactly one
\* prediction and is answered with 200, the id and the status.
C15_PromptValidated ==
    GenerationAnswered =>
        /\ (gvBody.prompt.kind = "absent" \/ TextPrompt(0, 0))
              => gvResponse.status = 400 /\ NoneCreated
        /\ PromptTooLong(gvBody.prompt)
              => gvResponse.status = 400 /\ NoneCreated
        /\ TextPrompt(1, MAX_PROMPT_LENGTH) => OneCreatedAndReturned

\* C15, amended: when REPLICATE_API_KEY is configured, a generation request
\* with a missing or empty prompt, or with a prompt of more than 500
\* characters, is answered with 400 (the second with "Prompt too long.
\* Maximum 500 characters allowed.") and creates no prediction; one with a
\* prompt of 1 to 500 characters calls predictions.create once and is answered
\* with 200, the id and the status of the one prediction created, or, when
\* that call throws, with 500 and no prediction created.  Without the key
\* every request is answered with 500 and creates no prediction.
C15_PromptValidatedWhenConfigured ==
    GenerationAnswered =>
        IF REPLICATE_API_KEY
           THEN /\ (gvBody.prompt.kind = "absent" \/ TextPrompt(0, 0))
                      => gvResponse.status = 400 /\ NoneCreated
                /\ PromptTooLong(gvBody.prompt)
                      => /\ gvResponse
                              = ErrorResponse(400,
                                    "Prompt too long. Maximum 500 characters allowed.")
                         /\ NoneCreated
                /\ TextPrompt(1, MAX_PROMPT_LENGTH)
                      => \/ OneCreatedAndReturned
                         \/ gvResponse.status = 500 /\ NoneCreated
           ELSE gvResponse.status = 500 /\ NoneCreated

\* a prompt of exactly 500 characters has started the second prediction
C15_Witness ==
    /\ GenerationAnswered
    /\ REPLICATE_API_KEY
    /\ TextPrompt(MAX_PROMPT_LENGTH, MAX_PROMPT_LENGTH)
    /\ OneCreatedAndReturned
    /\ gvBefore = 1

(***************************************************************************)
(* The analyze-file edge function.  One request is served at a time; the   *)
(* handler runs to its next fetch in one step.  A file type is the two     *)
(* halves of a MIME type, empty when the body has none.  A reply of the    *)
(* gateway is its status, 0 when the fetch throws, and what its body holds *)
(* at choices[0].message.content: a text, "" for an empty text, "no        *)
(* content" for nothing, "not JSON" when response.json() throws.           *)
(***************************************************************************)
FileTypes == { <<>>, <<"image", "png">>, <<"text", "plain">>, <<"application", "pdf">> }

\* what req.json() yields; NoAnalyzeBody is a body that is not JSON
AnalyzeBodies ==
    { NoAnalyzeBody } \cup [json : {TRUE}, fileType : FileTypes, prompt : BOOLEAN]

GatewayFailures == { 400, 402, 429, 500, 503 }

GatewayReplies ==
    { NoReply }
        \cup [status : GatewayFailures, data : {"none"}]
        \cup [status : {200}, data : {"not JSON", "no content", "", "It is a cat."}]

\* fileType?.startsWith("image/")
IsImage(fileType) == fileType # <<>> /\ fileType[1] = "image"

\* response.ok
ResponseOk(status) == status >= 200 /\ status <= 299

\* new Response(JSON.stringify({ analysis }))
AnalysisResponse(analysis) ==
    [status |-> 200, error |-> NULL, analysis |-> analysis, predictionId |-> 0,
     predictionStatus |-> NULL]

\* data.choices?.[0]?.message?.content, with nothing to fall back to
AnalysisWithoutFallback(data) == IF data = "no content" THEN NULL ELSE data

\* data.choices?.[0]?.message?.content || "Unable to analyze the file."
Analysis(data) ==
    IF data \in {"no content", ""} THEN "Unable to analyze the file." ELSE data

\* prompt || the default request, for an image and for a document
UserText(body) ==
    IF body.prompt THEN "prompt"
    ELSE IF IsImage(body.fileType) THEN "Please analyze this image"
    ELSE "Please analyze this file"

AnalyzeInit ==
    /\ LOVABLE_API_KEY \in BOOLEAN
    /\ afPc = "idle"
    /\ afMethod = "none"
    /\ afBody = NoAnalyzeBody
    /\ afText = "none"
    /\ afFile = "none"
    /\ afGateway = NoReply
    /\ afResponse = NoResponse

AnalyzeRespond(response) ==
    /\ afPc' = "done"
    /\ afResponse' = response

\* the handler, from the arrival of a request to its first fetch
AnalyzeFileRequest ==
    /\ afPc \in {"idle", "done"}
    /\ \E method \in {"OPTIONS", "POST"} :
       \E body \in IF method = "OPTIONS" THEN {NoAnalyzeBody} ELSE AnalyzeBodies :
          /\ afMethod' = method
          /\ afBody' = body
          /\ afFile' = "none"
          /\ afGateway' = NoReply
          /\ IF method = "OPTIONS"
                THEN afText' = "none" /\ AnalyzeRespond(PreflightResponse)
             ELSE IF ~body.json
                THEN afText' = "none" /\ AnalyzeRespond(ErrorResponse(500, "error.message"))
             ELSE IF ~LOVABLE_API_KEY
                THEN /\ afText' = "none"
                     /\ AnalyzeRespond(ErrorResponse(500, "LOVABLE_API_KEY is not configured"))
             ELSE /\ afText' = UserText(body)
                  /\ afPc' = IF IsImage(body.fileType) THEN "gateway" ELSE "file"
                  /\ afResponse' = NoResponse
    /\ UNCHANGED <<LOVABLE_API_KEY, nonAnalyzeVars>>

\* await fetch(fileUrl) and await fileResponse.text()
FileFetchDone ==
    /\ afPc = "file"
    /\ \E outcome \in {"ok", "not ok", "throws"} :
          /\ afFile' = outcome
          /\ IF outcome = "ok"
                THEN afPc' = "gateway" /\ afResponse' = afResponse
                ELSE AnalyzeRespond(ErrorResponse(500, "Could not fetch file content"))
    /\ UNCHANGED <<LOVABLE_API_KEY, afMethod, afBody, afText, afGateway, nonAnalyzeVars>>

\* await fetch of the gateway, and of the body of its reply
GatewayDone ==
    /\ afPc = "gateway"
    /\ \E reply \in GatewayReplies :
          /\ afGateway' = reply
          /\ IF reply = NoReply
                THEN AnalyzeRespond(ErrorResponse(500, "error.message"))
             ELSE IF ~ResponseOk(reply.status)
                THEN IF reply.status = 429
                        THEN AnalyzeRespond(ErrorResponse(429,
                                "Rate limits exceeded, please try again later."))
                     ELSE IF reply.status = 402
                        THEN AnalyzeRespond(ErrorResponse(402,
                                "Payment required, please add funds to your workspace."))
                     ELSE AnalyzeRespond(ErrorResponse(500, "AI gateway error"))
             ELSE IF reply.data = "not JSON"
                THEN AnalyzeRespond(ErrorResponse(500, "error.message"))
             ELSE AnalyzeRespond(AnalysisResponse(Analysis(reply.data)))
    /\ UNCHANGED <<LOVABLE_API_KEY, afMethod, afBody, afText, afFile, nonAnalyzeVars>>

AnalyzeNext ==
    \/ AnalyzeFileRequest
    \/ FileFetchDone
    \/ GatewayDone

AnalyzeSpecInit == AnalyzeInit /\ StreamIdle /\ RenderIdle /\ DbIdle /\ MigIdle /\ AcctIdle
        /\ ChatIdle /\ VideoIdle

AnalyzeSpec == AnalyzeSpecInit /\ [][AnalyzeNext]_vars

\* an analysis request that has been answered
AnalysisAnswered == afPc = "done" /\ afMethod = "POST"

\* the gateway answered with a JSON body and an OK status
GatewaySucceeded ==
    ResponseOk(afGateway.status) /\ afGateway.data # "not JSON"

\* C16: an answered analysis request has status 429 when the gateway said 429,
\* 402 when it said 402, 200 with a non-empty analysis when the gateway
\* succeeded, and 500 with an error in its body in every other case: no key,
\* no JSON body, the file not fetched, the gateway not reached, another
\* status of the gateway, a reply that is not JSON.
C16_StatusMapping ==
    AnalysisAnswered =>
        CASE afGateway.status = 429 ->
                afResponse.status = 429 /\ afResponse.error # NULL
          [] afGateway.status = 402 ->
                afResponse.status = 402 /\ afResponse.error # NULL
          [] GatewaySucceeded ->
                /\ afResponse.status = 200
                /\ afResponse.analysis \notin {NULL, ""}
                /\ afGateway.data \in {"no content", ""}
                      => afResponse.analysis = "Unable to analyze the file."
          [] OTHER ->
                /\ afResponse.status = 500
                /\ afResponse.error \notin {NULL, ""}
                /\ afResponse.analysis = NULL

\* a document was fetched, the gateway replied with an empty content, and the
\* response carries the fallback text
C16_Witness ==
    /\ AnalysisAnswered
    /\ ~IsImage(afBody.fileType)
    /\ afFile = "ok"
    /\ afGateway = [status |-> 200, data |-> ""]
    /\ afResponse = AnalysisResponse("Unable to analyze the file.")

=============================================================================
